---------------------------- MODULE Spec2Model ----------------------------
(***************************************************************************)
(* A model of the 2D fluid / temperature stepping script                   *)
(*   src/modellingfluidwithtemperatureandobstacleandexternalforceand       *)
(*       turbulance.py                                                     *)
(*                                                                         *)
(* Number representation.  The script computes in float64.  Here every     *)
(* real quantity r is the integer r * FIXED (three decimals), products are *)
(* rescaled by integer division, so that the arithmetic is a rounded       *)
(* arithmetic as the script's is.  Statements that the script makes        *)
(* "exactly" (an assignment of 0, a stencil on equal values, a weight of 0 *)
(* or 1) are exact here as well.  Non-finite floats (inf, NaN) are outside *)
(* the model.  sin and exp are rational approximations on the same grid.   *)
(*                                                                         *)
(* Fields are functions on Points (numpy "ij" indexing, 0-based as in the  *)
(* script); a vector field maps a point to <<x component, y component>>,   *)
(* so v[p][1] is the script's v[..., 0] and v[p][2] its v[..., 1].         *)
(***************************************************************************)
EXTENDS Integers, Sequences, FiniteSets, TLC

(* ------------------------------ bounds -------------------------------- *)

\* Grid points per axis (the script runs 41).
N_POINTS == 11

\* Steps of the main loop (the script runs 100).
N_TIME_STEPS == 3

\* Largest amplitude (in whole units) of the fields handed to the
\* differential operators and to advect when they are checked on their own.
MaxAmplitude == 2

(* ---------------------------- constants ------------------------------- *)

FIXED == 10 * 100

DOMAIN_SIZE == 1 * FIXED

\* 0.1
TIME_STEP_LENGTH == FIXED \div 10

\* 0.0001 and 0.0001, kept as reciprocals (they are below 1 / FIXED).
KINEMATIC_VISCOSITY_INV == 10000

TEMPERATURE_DIFFUSIVITY_INV == 10000

\* 0.1, as a reciprocal.
SMAGORINSKY_CONSTANT_INV == 10

\* Viscosities are carried in units of 1 / VISCOSITY_UNIT.
VISCOSITY_UNIT == 1000 * FIXED

\* 1 / element_length = (N_POINTS - 1) / DOMAIN_SIZE, with DOMAIN_SIZE = 1.0.
INV_ELEMENT_LENGTH == ((N_POINTS - 1) * FIXED) \div DOMAIN_SIZE

(* -------------------------- arithmetic -------------------------------- *)

Max(a, b) == IF a >= b THEN a ELSE b

Min(a, b) == IF a <= b THEN a ELSE b

Abs(a) == IF a >= 0 THEN a ELSE -a

\* a / b rounded toward zero (b > 0): the rescaling after a product.
Div(a, b) == IF a >= 0 THEN a \div b ELSE -((-a) \div b)

\* np.clip(a, lo, hi)
Clip(a, lo, hi) == Min(Max(a, lo), hi)

RECURSIVE SqrtSearch(_, _, _)
SqrtSearch(n, lo, hi) ==
    IF lo >= hi THEN lo
    ELSE LET mid == (lo + hi + 1) \div 2
         IN  IF mid * mid <= n THEN SqrtSearch(n, mid, hi)
                               ELSE SqrtSearch(n, lo, mid - 1)

\* np.sqrt on the integer grid: the largest r with r * r <= n.
ISqrt(n) == SqrtSearch(n, 0, Min(n, 46340))

\* sin(2 * pi * num / den) * FIXED, num >= 0 < den: Bhaskara's rational
\* approximation sin(pi x) ~ 16 x (1 - x) / (5 - 4 x (1 - x)) on each half
\* period; exact at the multiples of a quarter period.
SinHalf(xf) ==
    LET t == (xf * (FIXED - xf)) \div FIXED
    IN  (16 * t * FIXED) \div (5 * FIXED - 4 * t)

Sin2Pi(num, den) ==
    LET r == num % den
    IN  IF 2 * r <= den THEN SinHalf((2 * r * FIXED) \div den)
        ELSE -SinHalf(((2 * r - den) * FIXED) \div den)

\* exp(-z) * FIXED for z = zf / FIXED >= 0: the reciprocal of the degree-4
\* Taylor polynomial of exp(z); 0 once exp(-z) is below the grid.
ExpNeg(zf) ==
    IF zf >= 8 * FIXED THEN 0
    ELSE LET z2 == (zf * zf) \div FIXED
             z3 == (z2 * zf) \div FIXED
             z4 == ((z3 \div 6) * zf) \div FIXED
         IN  (FIXED * FIXED) \div (FIXED + zf + z2 \div 2 + z3 \div 6 + z4 \div 4)

(* ------------------------------ grid ---------------------------------- *)

Idx == 0 .. (N_POINTS - 1)

Points == Idx \X Idx

\* np.linspace(0.0, DOMAIN_SIZE, N_POINTS)
x(k) == (k * DOMAIN_SIZE) \div (N_POINTS - 1)

y(k) == (k * DOMAIN_SIZE) \div (N_POINTS - 1)

\* coordinates[i, j] = (X[i, j], Y[i, j]) with "ij" indexing
coordinates == [p \in Points |-> <<x(p[1]), y(p[2])>>]

\* (X - 0.5)**2 + (Y - 0.5)**2 < 0.1**2; points on the circle itself are
\* decided in exact arithmetic.
obstacle_center == <<FIXED \div 2, FIXED \div 2>>

obstacle_radius == FIXED \div 10

obstacle_mask ==
    [p \in Points |->
        (coordinates[p][1] - obstacle_center[1]) * (coordinates[p][1] - obstacle_center[1])
      + (coordinates[p][2] - obstacle_center[2]) * (coordinates[p][2] - obstacle_center[2])
      < obstacle_radius * obstacle_radius]

Interior(p) == p[1] \in 1 .. (N_POINTS - 2) /\ p[2] \in 1 .. (N_POINTS - 2)

\* np.zeros(scalar_shape), np.zeros(vector_shape)
ZeroScalar == [p \in Points |-> 0]

ZeroVector == [p \in Points |-> <<0, 0>>]

\* vector_field[..., c - 1]
Component(v, c) == [p \in Points |-> v[p][c]]

\* np.concatenate((a[..., np.newaxis], b[..., np.newaxis]), axis=-1)
Stack(a, b) == [p \in Points |-> <<a[p], b[p]>>]

(* ------------------------ forces and sources -------------------------- *)

\* forcing_function(time, point): time and point in FIXED units.
forcing_function(time, point) ==
    LET time_decay == Max(2 * FIXED - Div(time, 2), 0)
    IN  IF /\ point[1] > (4 * FIXED) \div 10
           /\ point[1] < (6 * FIXED) \div 10
           /\ point[2] > (1 * FIXED) \div 10
           /\ point[2] < (3 * FIXED) \div 10
        THEN <<0, time_decay>>
        ELSE <<0, 0>>

\* np.vectorize(forcing_function, signature="(),(d)->(d)")
forcing_function_vectorized(time, coords) ==
    [p \in Points |-> forcing_function(time, coords[p])]

\* external_force(time, coordinates)
external_force(time, coords) ==
    LET force_y == -Div(Sin2Pi(time, 10 * FIXED), 10)
    IN  [p \in Points |-> <<Div(Sin2Pi(coords[p][2], FIXED), 10), force_y>>]

\* np.exp(-((X - 0.5)**2 + (Y - 0.5)**2) / 0.01)
temperature_source ==
    [p \in Points |->
        LET dx == coordinates[p][1] - FIXED \div 2
            dy == coordinates[p][2] - FIXED \div 2
        IN  ExpNeg((100 * (dx * dx + dy * dy)) \div FIXED)]

(* ---------------------- differential operators ------------------------ *)

\* partial_derivative_x with the stencil carried to the boundary rows (the
\* neighbour index held inside the grid) instead of leaving them zero.
partial_derivative_x_to_the_edge(field) ==
    [p \in Points |->
        Div((field[<<Min(p[1] + 1, N_POINTS - 1), p[2]>>]
               - field[<<Max(p[1] - 1, 0), p[2]>>]) * INV_ELEMENT_LENGTH, 2)]

\* diff = zeros_like(field); diff[1:-1, 1:-1] = (field[2:, 1:-1] - field[0:-2, 1:-1]) / (2 h)
partial_derivative_x(field) ==
    [p \in Points |->
        IF Interior(p)
        THEN Div((field[<<p[1] + 1, p[2]>>] - field[<<p[1] - 1, p[2]>>]) * INV_ELEMENT_LENGTH, 2)
        ELSE 0]

\* diff[1:-1, 1:-1] = (field[1:-1, 2:] - field[1:-1, 0:-2]) / (2 h)
partial_derivative_y(field) ==
    [p \in Points |->
        IF Interior(p)
        THEN Div((field[<<p[1], p[2] + 1>>] - field[<<p[1], p[2] - 1>>]) * INV_ELEMENT_LENGTH, 2)
        ELSE 0]

\* laplace with a centre weight of 3 instead of 4.
laplace_centre_weight_3(field) ==
    [p \in Points |->
        IF Interior(p)
        THEN ( field[<<p[1] - 1, p[2]>>]
             + field[<<p[1], p[2] - 1>>]
             - 3 * field[p]
             + field[<<p[1] + 1, p[2]>>]
             + field[<<p[1], p[2] + 1>>] ) * (INV_ELEMENT_LENGTH * INV_ELEMENT_LENGTH)
        ELSE 0]

\* The five-point stencil, in the order the script adds its terms.
laplace(field) ==
    [p \in Points |->
        IF Interior(p)
        THEN ( field[<<p[1] - 1, p[2]>>]
             + field[<<p[1], p[2] - 1>>]
             - 4 * field[p]
             + field[<<p[1] + 1, p[2]>>]
             + field[<<p[1], p[2] + 1>>] ) * (INV_ELEMENT_LENGTH * INV_ELEMENT_LENGTH)
        ELSE 0]

\* laplace on an (N, N, 2) array: the slices act on the first two axes.
laplace_vector(vector_field) ==
    Stack(laplace(Component(vector_field, 1)), laplace(Component(vector_field, 2)))

divergence(vector_field) ==
    LET dx == partial_derivative_x(Component(vector_field, 1))
        dy == partial_derivative_y(Component(vector_field, 2))
    IN  [p \in Points |-> dx[p] + dy[p]]

gradient(field) == Stack(partial_derivative_x(field), partial_derivative_y(field))

curl_2d(vector_field) ==
    LET dx == partial_derivative_x(Component(vector_field, 2))
        dy == partial_derivative_y(Component(vector_field, 1))
    IN  [p \in Points |-> dx[p] - dy[p]]

(* --------------------------- turbulence ------------------------------- *)

\* |S| = sqrt(2 (S11^2 + S22^2 + 2 S12^2))
compute_strain_rate(velocity_field) ==
    LET du_dx == partial_derivative_x(Component(velocity_field, 1))
        dv_dy == partial_derivative_y(Component(velocity_field, 2))
        du_dy == partial_derivative_y(Component(velocity_field, 1))
        dv_dx == partial_derivative_x(Component(velocity_field, 2))
    IN  [p \in Points |->
            LET S11 == du_dx[p]
                S22 == dv_dy[p]
                S12 == Div(du_dy[p] + dv_dx[p], 2)
            IN  ISqrt(2 * (S11 * S11 + S22 * S22 + 2 * S12 * S12))]

\* (SMAGORINSKY_CONSTANT * element_length)**2 * |S|, in 1 / VISCOSITY_UNIT
compute_turbulent_viscosity(velocity_field) ==
    LET strain_rate_magnitude == compute_strain_rate(velocity_field)
        cs_h_inv == SMAGORINSKY_CONSTANT_INV * INV_ELEMENT_LENGTH
    IN  [p \in Points |->
            Div(strain_rate_magnitude[p] * (VISCOSITY_UNIT \div FIXED), cs_h_inv * cs_h_inv)]

\* v_i - dt * divergence(nu_eff * gradient(v_i)) for both components
diffusion_operator_turbulent(vector_field) ==
    LET turbulent_viscosity == compute_turbulent_viscosity(vector_field)
        effective_viscosity ==
            [p \in Points |->
                VISCOSITY_UNIT \div KINEMATIC_VISCOSITY_INV + turbulent_viscosity[p]]
        term(c) ==
            LET g == gradient(Component(vector_field, c))
            IN  divergence([p \in Points |->
                    <<effective_viscosity[p] * g[p][1], effective_viscosity[p] * g[p][2]>>])
        t1 == term(1)
        t2 == term(2)
        unit == VISCOSITY_UNIT * (FIXED \div TIME_STEP_LENGTH)
    IN  [p \in Points |->
            <<vector_field[p][1] - Div(t1[p], unit), vector_field[p][2] - Div(t2[p], unit)>>]

\* temp - TEMPERATURE_DIFFUSIVITY * TIME_STEP_LENGTH * laplace(temp)
temperature_diffusion_operator(temp) ==
    LET lap == laplace(temp)
    IN  [p \in Points |->
            temp[p] - Div(lap[p] * TIME_STEP_LENGTH, TEMPERATURE_DIFFUSIVITY_INV * FIXED)]

poisson_operator(field) == laplace(field)

(* ----------------------------- advection ------------------------------ *)

\* The backtrace held below DOMAIN_SIZE only (np.minimum in place of np.clip).
BacktraceUpperBoundOnly(vector_field) ==
    [p \in Points |->
        <<Min(coordinates[p][1] - Div(TIME_STEP_LENGTH * vector_field[p][1], FIXED), DOMAIN_SIZE),
          Min(coordinates[p][2] - Div(TIME_STEP_LENGTH * vector_field[p][2], FIXED), DOMAIN_SIZE)>>]

\* np.clip(coordinates - TIME_STEP_LENGTH * vector_field, 0.0, DOMAIN_SIZE)
Backtrace(vector_field) ==
    [p \in Points |->
        <<Clip(coordinates[p][1] - Div(TIME_STEP_LENGTH * vector_field[p][1], FIXED), 0, DOMAIN_SIZE),
          Clip(coordinates[p][2] - Div(TIME_STEP_LENGTH * vector_field[p][2], FIXED), 0, DOMAIN_SIZE)>>]

\* interpn's cell search on one axis: np.searchsorted(grid, pos) - 1,
\* kept inside 0 .. N_POINTS - 2.
FindIndex(pos) ==
    Clip(Cardinality({k \in Idx : x(k) < pos}) - 1, 0, N_POINTS - 2)

\* (pos - grid[i]) / (grid[i + 1] - grid[i])
NormDistance(pos, k) == Div((pos - x(k)) * FIXED, x(k + 1) - x(k))

\* The two edge weights exchanged.
EdgeWeightsExchanged(nd) == <<nd, FIXED - nd>>

\* The weight interpn gives the lower and the upper edge of a cell.
EdgeWeights(nd) == <<FIXED - nd, nd>>

\* interpn(points=(x, y), values=field, xi=position), method "linear":
\* the sum over the four corners of the cell of weight * value.
Interpolate(field, position) ==
    LET ix == FindIndex(position[1])
        iy == FindIndex(position[2])
        wx == EdgeWeights(NormDistance(position[1], ix))
        wy == EdgeWeights(NormDistance(position[2], iy))
        corner(a, b) == Div(Div(field[<<ix + a, iy + b>>] * wx[a + 1], FIXED) * wy[b + 1], FIXED)
    IN  corner(0, 0) + corner(0, 1) + corner(1, 0) + corner(1, 1)

\* interpn's bounds_error=True: a position outside the grid raises ValueError.
InBounds(positions) ==
    \A p \in Points :
        /\ positions[p][1] >= x(0) /\ positions[p][1] <= x(N_POINTS - 1)
        /\ positions[p][2] >= y(0) /\ positions[p][2] <= y(N_POINTS - 1)

\* advect(field, vector_field) for a scalar field
advect(field, vector_field) ==
    LET positions == Backtrace(vector_field)
    IN  IF InBounds(positions)
        THEN [p \in Points |-> Interpolate(field, positions[p])]
        ELSE "ValueError"

\* advect(field, vector_field) for a vector field: interpn interpolates the
\* trailing axis component by component with the same weights.
advect_vector(field, vector_field) ==
    IF InBounds(Backtrace(vector_field))
    THEN Stack(advect(Component(field, 1), vector_field),
               advect(Component(field, 2), vector_field))
    ELSE "ValueError"

(* ------------------- scipy.sparse.linalg.cg ---------------------------- *)
(* cg(A, b, maxiter=...) returns (x, info): info = 0 when the residual      *)
(* reached the tolerance, info = the iteration count when the cap was hit   *)
(* first, x being the last iterate either way.  The iteration itself is     *)
(* library code; here x ranges over the initial guess x0 = 0, the diagonal  *)
(* solve x1 = b / diag(A) and its residual correction                       *)
(* x1 + (b - A x1) / diag(A), and info over both outcomes.  A zero          *)
(* right-hand side returns (0, 0) at once.                                  *)

\* maxiter=None: the library's cap of ten iterations per unknown.
CgMaxIter(dof) == 10 * dof

scalar_dof == N_POINTS * N_POINTS

vector_dof == N_POINTS * N_POINTS * 2

CgOutcomes(iterates, b, zero, dof) ==
    IF b = zero
    THEN {[solution |-> zero, info |-> 0]}
    ELSE {[solution |-> s, info |-> CgMaxIter(dof)] : s \in iterates}
         \cup {[solution |-> s, info |-> 0] : s \in iterates \ {zero}}

\* splinalg.LinearOperator(shape, matvec): the operator is named by its matvec.
matvec(A, v) ==
    CASE A = "diffusion_operator_turbulent"   -> diffusion_operator_turbulent(v)
      [] A = "poisson_operator"               -> poisson_operator(v)
      [] A = "temperature_diffusion_operator" -> temperature_diffusion_operator(v)

\* r / diag(A): 1 for the two diffusion operators, -4 / h^2 for laplace.
Diagonal(A, r) ==
    IF A = "poisson_operator"
    THEN -Div(r, 4 * INV_ELEMENT_LENGTH * INV_ELEMENT_LENGTH)
    ELSE r

cg_scalar(A, b) ==
    LET x1  == [p \in Points |-> Diagonal(A, b[p])]
        Ax1 == matvec(A, x1)
        x2  == [p \in Points |-> x1[p] + Diagonal(A, b[p] - Ax1[p])]
    IN  CgOutcomes({ZeroScalar, x1, x2}, b, ZeroScalar, scalar_dof)

cg_vector(A, b) ==
    LET x1  == [p \in Points |-> <<Diagonal(A, b[p][1]), Diagonal(A, b[p][2])>>]
        Ax1 == matvec(A, x1)
        x2  == [p \in Points |-> <<x1[p][1] + Diagonal(A, b[p][1] - Ax1[p][1]),
                                   x1[p][2] + Diagonal(A, b[p][2] - Ax1[p][2])>>]
    IN  CgOutcomes({ZeroVector, x1, x2}, b, ZeroVector, vector_dof)

(* --------------------------- temperature ------------------------------ *)

\* temperature_step(temperature, velocity_field, source): the temperatures it
\* may return, each with the status cg gave and the function dropped.
temperature_step(temperature, velocity_field, source) ==
    LET temperature_advected == advect(temperature, velocity_field)
    IN  { [temperature_next |->
               [p \in Points |-> o.solution[p] + Div(TIME_STEP_LENGTH * source[p], FIXED)],
           info |-> o.info]
          : o \in cg_scalar("temperature_diffusion_operator", temperature_advected) }

(* ---------------------------- obstacle -------------------------------- *)

\* velocities_projected[obstacle_mask, :] = 0
ZeroObstacleVelocity(v) ==
    [p \in Points |-> IF obstacle_mask[p] THEN <<0, 0>> ELSE v[p]]

\* 0.5
OBSTACLE_TEMPERATURE == FIXED \div 2

\* The commented-out heat sink: temperature_prev[obstacle_mask] = 0.0
ClampObstacleTemperatureHeatSink(t) ==
    [p \in Points |-> IF obstacle_mask[p] THEN 0 ELSE t[p]]

\* The clamp without the mask: temperature_prev[:] = 0.5
ClampTemperatureEverywhere(t) == [p \in Points |-> OBSTACLE_TEMPERATURE]

\* temperature_prev[obstacle_mask] = 0.5
ClampObstacleTemperature(t) ==
    [p \in Points |-> IF obstacle_mask[p] THEN OBSTACLE_TEMPERATURE ELSE t[p]]

(* ============================ main loop =============================== *)

VARIABLES
    scenario,                   \* "script": the forces and the source of the script;
                                \* "unforced": all three replaced by zero
    pc,                         \* the statement of main() to run next
    i,                          \* for i in range(N_TIME_STEPS)
    time_current,
    velocities_prev,
    temperature_prev,
    forces,
    external_forces,
    velocities_forces_applied,
    velocities_advected,
    velocities_diffused,
    pressure,
    velocities_projected,
    cg_info,                    \* the status of the last cg call, which the script drops
    warnings,                   \* what the script has reported about its solves
    op,                         \* the function under check, when one is checked alone
    arg_field,
    arg_vector,
    result,
    backtraced_positions

vars == <<scenario, pc, i, time_current, velocities_prev, temperature_prev, forces,
          external_forces, velocities_forces_applied, velocities_advected,
          velocities_diffused, pressure, velocities_projected, cg_info, warnings,
          op, arg_field, arg_vector, result, backtraced_positions>>

probe == <<op, arg_field, arg_vector, result, backtraced_positions>>

\* The loop body with the obstacle zeroing moved before the projection.
NextStageObstacleBeforeProjection(s) ==
    CASE s = "forces"      -> "advect"
      [] s = "advect"      -> "diffuse"
      [] s = "diffuse"     -> "pressure"
      [] s = "pressure"    -> "obstacle"
      [] s = "obstacle"    -> "project"
      [] s = "project"     -> "temperature"
      [] s = "temperature" -> "clamp"
      [] s = "clamp"       -> "advance"

\* The statement that follows statement s in the loop body.
NextStage(s) ==
    CASE s = "forces"      -> "advect"
      [] s = "advect"      -> "diffuse"
      [] s = "diffuse"     -> "pressure"
      [] s = "pressure"    -> "project"
      [] s = "project"     -> "obstacle"
      [] s = "obstacle"    -> "temperature"
      [] s = "temperature" -> "clamp"
      [] s = "clamp"       -> "advance"

\* The forces and the source of the run.
Forcing(time) ==
    IF scenario = "unforced" THEN ZeroVector
    ELSE forcing_function_vectorized(time, coordinates)

External(time) ==
    IF scenario = "unforced" THEN ZeroVector
    ELSE external_force(time, coordinates)

Source == IF scenario = "unforced" THEN ZeroScalar ELSE temperature_source

Init ==
    /\ scenario \in {"script", "unforced"}
    /\ pc = "forces"
    /\ i = 0
    /\ time_current = 0
    /\ velocities_prev = ZeroVector
    /\ temperature_prev = ZeroScalar
    /\ forces = ZeroVector
    /\ external_forces = ZeroVector
    /\ velocities_forces_applied = ZeroVector
    /\ velocities_advected = ZeroVector
    /\ velocities_diffused = ZeroVector
    /\ pressure = ZeroScalar
    /\ velocities_projected = ZeroVector
    /\ cg_info = 0
    /\ warnings = << >>
    /\ op = "none"
    /\ arg_field = ZeroScalar
    /\ arg_vector = ZeroVector
    /\ result = ZeroScalar
    /\ backtraced_positions = coordinates

\* The time left as it is when the forces are evaluated.
TimeNotAdvanced(t) == t

\* time_current += TIME_STEP_LENGTH; forces; external_forces; (1) Apply Forces
TimeAfterAdvance(t) == t + TIME_STEP_LENGTH

ApplyForces ==
    /\ pc = "forces"
    /\ i < N_TIME_STEPS
    /\ time_current' = TimeAfterAdvance(time_current)
    /\ forces' = Forcing(time_current')
    /\ external_forces' = External(time_current')
    /\ velocities_forces_applied' =
          [p \in Points |->
              <<velocities_prev[p][1]
                  + Div(TIME_STEP_LENGTH * (forces'[p][1] + external_forces'[p][1]), FIXED),
                velocities_prev[p][2]
                  + Div(TIME_STEP_LENGTH * (forces'[p][2] + external_forces'[p][2]), FIXED)>>]
    /\ pc' = NextStage(pc)
    /\ UNCHANGED <<scenario, i, velocities_prev, temperature_prev, velocities_advected,
                   velocities_diffused, pressure, velocities_projected, cg_info,
                   warnings, probe>>

\* (2) Nonlinear convection (=self-advection)
SelfAdvect ==
    /\ pc = "advect"
    /\ velocities_advected' = advect_vector(velocities_forces_applied, velocities_forces_applied)
    /\ pc' = NextStage(pc)
    /\ UNCHANGED <<scenario, i, time_current, velocities_prev, temperature_prev, forces,
                   external_forces, velocities_forces_applied, velocities_diffused,
                   pressure, velocities_projected, cg_info, warnings, probe>>

\* (3) Diffuse: cg(...)[0]
Diffuse ==
    /\ pc = "diffuse"
    /\ \E o \in cg_vector("diffusion_operator_turbulent", velocities_advected) :
          /\ velocities_diffused' = o.solution
          /\ cg_info' = o.info
    /\ pc' = NextStage(pc)
    /\ UNCHANGED <<scenario, i, time_current, velocities_prev, temperature_prev, forces,
                   external_forces, velocities_forces_applied, velocities_advected,
                   pressure, velocities_projected, warnings, probe>>

\* (4.1) Compute a pressure correction: cg(...)[0]
SolvePressure ==
    /\ pc = "pressure"
    /\ \E o \in cg_scalar("poisson_operator", divergence(velocities_diffused)) :
          /\ pressure' = o.solution
          /\ cg_info' = o.info
    /\ pc' = NextStage(pc)
    /\ UNCHANGED <<scenario, i, time_current, velocities_prev, temperature_prev, forces,
                   external_forces, velocities_forces_applied, velocities_advected,
                   velocities_diffused, velocities_projected, warnings, probe>>

\* (4.2) velocities_diffused - gradient(pressure)
Projection(diffused, p) ==
    LET g == gradient(p)
    IN  [q \in Points |-> <<diffused[q][1] - g[q][1], diffused[q][2] - g[q][2]>>]

Project ==
    /\ pc = "project"
    /\ velocities_projected' = Projection(velocities_diffused, pressure)
    /\ pc' = NextStage(pc)
    /\ UNCHANGED <<scenario, i, time_current, velocities_prev, temperature_prev, forces,
                   external_forces, velocities_forces_applied, velocities_advected,
                   velocities_diffused, pressure, cg_info, warnings, probe>>

\* velocities_projected[obstacle_mask, :] = 0
Obstacle ==
    /\ pc = "obstacle"
    /\ velocities_projected' = ZeroObstacleVelocity(velocities_projected)
    /\ pc' = NextStage(pc)
    /\ UNCHANGED <<scenario, i, time_current, velocities_prev, temperature_prev, forces,
                   external_forces, velocities_forces_applied, velocities_advected,
                   velocities_diffused, pressure, cg_info, warnings, probe>>

\* temperature_prev = temperature_step(temperature_prev, velocities_projected, source)
TemperatureStep ==
    /\ pc = "temperature"
    /\ \E o \in temperature_step(temperature_prev, velocities_projected, Source) :
          /\ temperature_prev' = o.temperature_next
          /\ cg_info' = o.info
    /\ pc' = NextStage(pc)
    /\ UNCHANGED <<scenario, i, time_current, velocities_prev, forces, external_forces,
                   velocities_forces_applied, velocities_advected, velocities_diffused,
                   pressure, velocities_projected, warnings, probe>>

\* temperature_prev[obstacle_mask] = 0.5
Clamp ==
    /\ pc = "clamp"
    /\ temperature_prev' = ClampObstacleTemperature(temperature_prev)
    /\ pc' = NextStage(pc)
    /\ UNCHANGED <<scenario, i, time_current, velocities_prev, forces, external_forces,
                   velocities_forces_applied, velocities_advected, velocities_diffused,
                   pressure, velocities_projected, cg_info, warnings, probe>>

\* velocities_prev = velocities_projected; the plot; the next i
Advance ==
    /\ pc = "advance"
    /\ velocities_prev' = velocities_projected
    /\ i' = i + 1
    /\ pc' = IF i + 1 < N_TIME_STEPS THEN "forces" ELSE "done"
    /\ UNCHANGED <<scenario, time_current, temperature_prev, forces, external_forces,
                   velocities_forces_applied, velocities_advected, velocities_diffused,
                   pressure, velocities_projected, cg_info, warnings, probe>>

Next ==
    \/ ApplyForces
    \/ SelfAdvect
    \/ Diffuse
    \/ SolvePressure
    \/ Project
    \/ Obstacle
    \/ TemperatureStep
    \/ Clamp
    \/ Advance

Spec == Init /\ [][Next]_vars

(* ================= the functions checked on their own ================= *)
(* The inputs are drawn from bounded families of fields: constant, linear   *)
(* and quadratic in a coordinate, and single-point bumps on the boundary,   *)
(* next to it and in the middle.                                            *)

Amplitudes == {a * FIXED : a \in (-MaxAmplitude) .. MaxAmplitude}

NonZeroAmplitudes == Amplitudes \ {0}

Constant(c) == [p \in Points |-> c]

LinearX(c) == [p \in Points |-> c * p[1]]

LinearY(c) == [p \in Points |-> c * p[2]]

QuadraticX(c) == [p \in Points |-> c * p[1] * p[1]]

QuadraticY(c) == [p \in Points |-> c * p[2] * p[2]]

Bump(q, c) == [p \in Points |-> IF p = q THEN c ELSE 0]

BumpPoints ==
    {<<0, 0>>, <<1, 1>>, <<N_POINTS - 1, N_POINTS \div 2>>, <<N_POINTS \div 2, N_POINTS \div 2>>}

VaryingInputs ==
    {LinearX(c) : c \in NonZeroAmplitudes}
    \cup {LinearY(c) : c \in NonZeroAmplitudes}
    \cup {QuadraticX(c) : c \in NonZeroAmplitudes}
    \cup {Bump(q, c) : q \in BumpPoints, c \in NonZeroAmplitudes}

ScalarInputs == {Constant(c) : c \in Amplitudes} \cup VaryingInputs

VectorInputs ==
    {Stack(Constant(c), Constant(d)) : c, d \in Amplitudes}
    \cup {Stack(f, ZeroScalar) : f \in VaryingInputs}
    \cup {Stack(ZeroScalar, f) : f \in VaryingInputs}
    \cup {Stack(f, f) : f \in VaryingInputs}

IsConstant(f) == \A p \in Points : f[p] = f[<<0, 0>>]

\* The variables of the main loop, at rest while a function is checked alone.
LoopAtRest ==
    /\ scenario = "script"
    /\ i = 0
    /\ time_current = 0
    /\ velocities_prev = ZeroVector
    /\ temperature_prev = ZeroScalar
    /\ forces = ZeroVector
    /\ external_forces = ZeroVector
    /\ velocities_forces_applied = ZeroVector
    /\ velocities_advected = ZeroVector
    /\ velocities_projected = ZeroVector
    /\ cg_info = 0
    /\ warnings = << >>

loop == <<scenario, i, time_current, velocities_prev, temperature_prev, forces,
          external_forces, velocities_forces_applied, velocities_advected,
          velocities_diffused, pressure, velocities_projected, cg_info, warnings>>

(* ---------------- the differential operators alone -------------------- *)

InitOperators ==
    /\ LoopAtRest
    /\ velocities_diffused = ZeroVector
    /\ pressure = ZeroScalar
    /\ pc = "probe"
    /\ op = "none"
    /\ \/ arg_field \in ScalarInputs /\ arg_vector = ZeroVector
       \/ arg_field = ZeroScalar /\ arg_vector \in VectorInputs
    /\ result = ZeroScalar
    /\ backtraced_positions = coordinates

ApplyPartialX ==
    /\ pc = "probe"
    /\ pc' = "applied"
    /\ op' = "partial_derivative_x"
    /\ result' = partial_derivative_x(arg_field)
    /\ UNCHANGED <<loop, arg_field, arg_vector, backtraced_positions>>

ApplyPartialY ==
    /\ pc = "probe"
    /\ pc' = "applied"
    /\ op' = "partial_derivative_y"
    /\ result' = partial_derivative_y(arg_field)
    /\ UNCHANGED <<loop, arg_field, arg_vector, backtraced_positions>>

ApplyLaplace ==
    /\ pc = "probe"
    /\ pc' = "applied"
    /\ op' = "laplace"
    /\ result' = laplace(arg_field)
    /\ UNCHANGED <<loop, arg_field, arg_vector, backtraced_positions>>

ApplyLaplaceVector ==
    /\ pc = "probe"
    /\ pc' = "applied"
    /\ op' = "laplace_vector"
    /\ result' = laplace_vector(arg_vector)
    /\ UNCHANGED <<loop, arg_field, arg_vector, backtraced_positions>>

ApplyGradient ==
    /\ pc = "probe"
    /\ pc' = "applied"
    /\ op' = "gradient"
    /\ result' = gradient(arg_field)
    /\ UNCHANGED <<loop, arg_field, arg_vector, backtraced_positions>>

ApplyDivergence ==
    /\ pc = "probe"
    /\ pc' = "applied"
    /\ op' = "divergence"
    /\ result' = divergence(arg_vector)
    /\ UNCHANGED <<loop, arg_field, arg_vector, backtraced_positions>>

ApplyCurl ==
    /\ pc = "probe"
    /\ pc' = "applied"
    /\ op' = "curl_2d"
    /\ result' = curl_2d(arg_vector)
    /\ UNCHANGED <<loop, arg_field, arg_vector, backtraced_positions>>

NextOperators ==
    \/ ApplyPartialX
    \/ ApplyPartialY
    \/ ApplyLaplace
    \/ ApplyLaplaceVector
    \/ ApplyGradient
    \/ ApplyDivergence
    \/ ApplyCurl

SpecOperators == InitOperators /\ [][NextOperators]_vars

(* --------------------------- advect alone ----------------------------- *)

\* Transport fields: none, uniform ones of half a unit (half a cell per step
\* on the 11-point grid) and of ten times the amplitude (a displacement of
\* several domain lengths), in both signs, and sheared ones.
TransportSpeeds ==
    {0, FIXED \div 2, -(FIXED \div 2), 10 * MaxAmplitude * FIXED, -(10 * MaxAmplitude * FIXED)}

TransportInputs ==
    {Stack(Constant(c), Constant(d)) : c, d \in TransportSpeeds}
    \cup {Stack(LinearY(c), LinearX(c)) : c \in NonZeroAmplitudes}

AdvectedVectorInputs ==
    {Stack(f, ZeroScalar) : f \in VaryingInputs} \cup {Stack(f, f) : f \in ScalarInputs}

InitAdvect ==
    /\ LoopAtRest
    /\ velocities_diffused = ZeroVector
    /\ pressure = ZeroScalar
    /\ pc = "probe"
    /\ \/ op = "advect scalar" /\ arg_field \in ScalarInputs
       \/ op = "advect vector" /\ arg_field \in AdvectedVectorInputs
    /\ arg_vector \in TransportInputs
    /\ result = ZeroScalar
    /\ backtraced_positions = coordinates

AdvectScalar ==
    /\ pc = "probe"
    /\ op = "advect scalar"
    /\ backtraced_positions' = Backtrace(arg_vector)
    /\ result' = advect(arg_field, arg_vector)
    /\ pc' = "applied"
    /\ UNCHANGED <<loop, op, arg_field, arg_vector>>

AdvectVector ==
    /\ pc = "probe"
    /\ op = "advect vector"
    /\ backtraced_positions' = Backtrace(arg_vector)
    /\ result' = advect_vector(arg_field, arg_vector)
    /\ pc' = "applied"
    /\ UNCHANGED <<loop, op, arg_field, arg_vector>>

NextAdvect == AdvectScalar \/ AdvectVector

SpecAdvect == InitAdvect /\ [][NextAdvect]_vars

(* ------------------------- projection alone --------------------------- *)
(* Pressures p = c i^2 and p = c j^2 and, as diffused velocities, their     *)
(* analytic gradients (2 c i / h, 0) and (0, 2 c j / h), for which the      *)
(* five-point laplace(p) equals divergence(v) exactly; besides them shear   *)
(* and uniform velocities, which are divergence free.                      *)

Curvatures == {a * (FIXED \div 100) : a \in (-MaxAmplitude) .. MaxAmplitude}

PressureInputs ==
    {QuadraticX(c) : c \in Curvatures} \cup {QuadraticY(c) : c \in Curvatures}

DiffusedInputs ==
    {Stack(LinearX(2 * c * INV_ELEMENT_LENGTH), ZeroScalar) : c \in Curvatures}
    \cup {Stack(ZeroScalar, LinearY(2 * c * INV_ELEMENT_LENGTH)) : c \in Curvatures}
    \cup {Stack(LinearY(c), LinearX(d)) : c, d \in Curvatures}
    \cup {Stack(Constant(c), Constant(c)) : c \in Amplitudes}

InitProjection ==
    /\ LoopAtRest
    /\ pc = "project"
    /\ velocities_diffused \in DiffusedInputs
    /\ pressure \in PressureInputs
    /\ op = "none"
    /\ arg_field = ZeroScalar
    /\ arg_vector = ZeroVector
    /\ result = ZeroScalar
    /\ backtraced_positions = coordinates

NextProjection == Project

SpecProjection == InitProjection /\ [][NextProjection]_vars

(* ============================== claims ================================ *)

InMask(p) == obstacle_mask[p]

StepDone == (pc = "forces" /\ i >= 1) \/ pc = "done"

\* C1: at the end of every step, every point of the obstacle mask has velocity
\* (0, 0) and temperature 0.5 in the state carried into the next step.
C1_ObstaclePinnedAtStepEnd ==
    StepDone =>
        \A p \in Points :
            InMask(p) => /\ velocities_prev[p] = <<0, 0>>
                         /\ temperature_prev[p] = FIXED \div 2

\* A step has ended whose projection had left a velocity on the obstacle, and
\* whose source adds heat there.
C1_Witness ==
    /\ StepDone
    /\ scenario = "script"
    /\ \E p \in Points :
          /\ InMask(p)
          /\ temperature_source[p] # 0
          /\ Projection(velocities_diffused, pressure)[p] # <<0, 0>>

\* C2: every step runs its stages in the one order forces, advection,
\* diffusion, pressure, projection, obstacle zeroing, temperature step, clamp;
\* the temperature step starts from a velocity that is zero on the obstacle
\* and does not change it.
C2_StageStep ==
    /\ pc = "forces"      => pc' = "advect"
    /\ pc = "advect"      => pc' = "diffuse"
    /\ pc = "diffuse"     => pc' = "pressure"
    /\ pc = "pressure"    => pc' = "project"
    /\ pc = "project"     => pc' = "obstacle"
    /\ pc = "obstacle"    => pc' = "temperature"
    /\ pc = "temperature" =>
          /\ pc' = "clamp"
          /\ \A p \in Points : InMask(p) => velocities_projected[p] = <<0, 0>>
          /\ velocities_projected' = velocities_projected
    /\ pc = "clamp"       => pc' = "advance"
    /\ pc = "advance"     => pc' \in {"forces", "done"} /\ i' = i + 1

C2_StagesInOrder == [][C2_StageStep]_vars

\* The last step has run to its end, and its projection had left a velocity
\* on the obstacle that the zeroing removed.
C2_Witness ==
    /\ pc = "done"
    /\ i = N_TIME_STEPS
    /\ \E p \in Points :
          InMask(p) /\ Projection(velocities_diffused, pressure)[p] # <<0, 0>>

\* C3: a cg solve that ends without converging (info > 0) is reported.
C3_NonConvergenceSurfaced == cg_info # 0 => warnings # << >>

\* C4 as stated: with no forces and no source, one step leaves velocity and
\* temperature zero at every grid point.
C4_UnforcedStepLeavesAllZero ==
    (scenario = "unforced" /\ i = 1 /\ pc = "forces") =>
        /\ velocities_prev = ZeroVector
        /\ temperature_prev = ZeroScalar

\* C4 amended: with no forces and no source, one step leaves the velocity zero
\* at every grid point and the temperature zero at every grid point outside
\* the obstacle mask, and equal to the clamp value 0.5 inside it.
C4_UnforcedStepZeroOffObstacle ==
    (scenario = "unforced" /\ i = 1 /\ pc = "forces") =>
        /\ velocities_prev = ZeroVector
        /\ \A p \in Points :
              temperature_prev[p] = IF InMask(p) THEN FIXED \div 2 ELSE 0

\* The unforced run has finished its first step, on a grid that has points
\* inside and outside the obstacle.
C4_Witness ==
    /\ scenario = "unforced" /\ i = 1 /\ pc = "forces"
    /\ \E p, q \in Points : InMask(p) /\ ~InMask(q)

\* No tolerance is configured in the script; one hundredth is taken here.
DIVERGENCE_TOLERANCE == FIXED \div 100

VectorValued(name) == name \in {"gradient", "laplace_vector"}

C6_BoundaryIsZero ==
    pc = "applied" =>
        \A p \in Points :
            ~Interior(p) =>
                IF VectorValued(op) THEN result[p] = <<0, 0>> ELSE result[p] = 0

\* partial_derivative_x was applied to a field whose differences along x do
\* not vanish on the boundary, and returned non-zero values inside.
C6_Witness ==
    /\ pc = "applied"
    /\ op = "partial_derivative_x"
    /\ \E p \in Points : p[1] = 0 /\ arg_field[<<1, p[2]>>] # arg_field[p]
    /\ \E q \in Points : Interior(q) /\ result[q] # 0

\* C7: gradient and laplace of a constant field, and divergence of a vector
\* field with constant components, are zero at every point.
C7_ConstantFieldsGiveZero ==
    /\ (pc = "applied" /\ op = "gradient" /\ IsConstant(arg_field)) => result = ZeroVector
    /\ (pc = "applied" /\ op = "laplace" /\ IsConstant(arg_field)) => result = ZeroScalar
    /\ (pc = "applied" /\ op = "divergence" /\ IsConstant(arg_vector)) => result = ZeroScalar

\* laplace was applied to a constant field that is not zero.
C7_Witness ==
    /\ pc = "applied"
    /\ op = "laplace"
    /\ IsConstant(arg_field)
    /\ arg_field[<<0, 0>>] # 0

\* C8: advect with a transport field that is zero everywhere returns the
\* advected field unchanged, scalar or vector.
C8_ZeroTransportIsIdentity ==
    (pc = "applied" /\ arg_vector = ZeroVector) => result = arg_field

\* A vector field that varies over the grid was advected with zero transport.
C8_Witness ==
    /\ pc = "applied"
    /\ op = "advect vector"
    /\ arg_vector = ZeroVector
    /\ \E p, q \in Points : arg_field[p] # arg_field[q]

\* C9: both coordinates of every backtraced position lie in [0, DOMAIN_SIZE].
C9_BacktraceInsideDomain ==
    pc = "applied" =>
        \A p \in Points :
            /\ backtraced_positions[p][1] \in 0 .. DOMAIN_SIZE
            /\ backtraced_positions[p][2] \in 0 .. DOMAIN_SIZE

\* A field was sampled after a backtrace that left the domain on the low side
\* at one point and on the high side at another before it was clipped.
C9_Witness ==
    /\ pc = "applied"
    /\ InBounds(backtraced_positions)
    /\ \E p \in Points :
          coordinates[p][1] - Div(TIME_STEP_LENGTH * arg_vector[p][1], FIXED) < 0
    /\ \E q \in Points :
          coordinates[q][2] - Div(TIME_STEP_LENGTH * arg_vector[q][2], FIXED) > DOMAIN_SIZE

\* C10: in step k = i + 1 the time has been advanced once, to k * 0.1, before
\* the forces are evaluated; the forcing is (0, max(2.0 - 0.5 t, 0)) strictly
\* inside x in (0.4, 0.6), y in (0.1, 0.3) and (0, 0) elsewhere, 1.95 in the
\* first step; the external force is the one of that time.
InForcedRegion(p) ==
    /\ 10 * coordinates[p][1] > 4 * FIXED /\ 10 * coordinates[p][1] < 6 * FIXED
    /\ 10 * coordinates[p][2] > 1 * FIXED /\ 10 * coordinates[p][2] < 3 * FIXED

DecayAtStep(k) == Max(2 * FIXED - (k * FIXED) \div 20, 0)

InStep == pc \in {"advect", "diffuse", "pressure", "project", "obstacle",
                  "temperature", "clamp", "advance"}

C10_ForcesAtAdvancedTime ==
    /\ (pc \in {"forces", "done"}) => time_current = i * (FIXED \div 10)
    /\ InStep => time_current = (i + 1) * (FIXED \div 10)
    /\ (InStep /\ scenario = "script") =>
          /\ \A p \in Points :
                forces[p] = IF InForcedRegion(p) THEN <<0, DecayAtStep(i + 1)>> ELSE <<0, 0>>
          /\ external_forces = external_force((i + 1) * (FIXED \div 10), coordinates)
          /\ i = 0 => DecayAtStep(i + 1) = (195 * FIXED) \div 100

\* The forces of the second step have been evaluated, and are not zero.
C10_Witness ==
    /\ pc = "advect"
    /\ scenario = "script"
    /\ i = 1
    /\ \E p \in Points : forces[p] # <<0, 0>>

=============================================================================
